---- MODULE Spec2Model ----
(***************************************************************************)
(* A model of lambda-feedback/EvalDocsLoader.                              *)
(*                                                                         *)
(*   Spec      one FetchDocsJob (evaldocsloader/loader_fetch.py): the      *)
(*             recursive fetch of a root document and of everything its    *)
(*             relative links reach, as an explicit call stack.            *)
(*   FairSpec  the same job, with the fairness of a running thread.        *)
(*   SpecPool  FunctionLoader.load (evaldocsloader/loader.py): the worker  *)
(*             pool that fetches the documentation of several projects,    *)
(*             and the plugin's on_config that registers the result.       *)
(*   SpecParse FetchDocsJob._fetch_test_file with TestFile and SingleTest  *)
(*             (evaldocsloader/auto_tests.py): the parse of eval_tests.*.  *)
(*   SpecRun   the same parse, then SingleTest.evaluate_all and            *)
(*             compare_all on the tests of the parsed file.                *)
(*                                                                         *)
(* A string of the program (a path, a link target) is a sequence of        *)
(* tokens; the path separator "/" is a token of its own, and so are a      *)
(* file's extension (".md") and the marker "__" that replaces "/" in a     *)
(* generated local name.                                                   *)
(***************************************************************************)
EXTENDS Integers, Sequences, FiniteSets, TLC

\* ------------------------------------------------------------------ bounds

\* The longest chain of documents user.md -> d1.md -> ... a repository holds.
MaxChain == 6

\* How many requests to the remote may fail although the path exists.
MaxTransient == 1

\* How many repositories FunctionLoader.load hands to the worker pool.
NumRepos == 2

\* The most groups (questions, YAML documents) of a test file, the most tests
\* of a group, and the most entries of a sub_tests list.
MaxGroups == 2
MaxTests == 2
MaxSubTests == 2

\* The most links, auto-links and images of a document the collector renders.
MaxLinks == 3

\* The most top-level blocks of a document that is edited.
MaxBlocks == 3

\* -------------------------------------------------------------- constants

\* loader_fetch.py:82, "if level > 4".
MaxLevel == 4

\* Python's None (a token sequence that is no path).
None == <<"None">>

\* loader_fetch.py:97 and 273, "not self._remote_docs_dir": None and "" are falsy.
Falsy(s) == s = None \/ s = <<>>

\* ---------------------------------------------------------------- strings

\* str.lower(), on the tokens the model uses in upper case.
Lower(tok) == IF tok = ".MD" THEN ".md" ELSE tok

\* file.path.lower().endswith(".md")
EndsWithMd(path) == Len(path) > 0 /\ Lower(path[Len(path)]) = ".md"

\* link_url.startswith("http")
StartsWithHttp(link) == Len(link) > 0 /\ link[1] = "http"

\* str.split("/"): the segments between the separators.
Split[s \in Seq(STRING)] ==
  IF \A i \in 1..Len(s) : s[i] # "/" THEN <<s>>
  ELSE LET k == CHOOSE i \in 1..Len(s) : s[i] = "/" /\ \A j \in 1..(i-1) : s[j] # "/"
       IN <<SubSeq(s, 1, k-1)>> \o Split[SubSeq(s, k+1, Len(s))]

\* "/".join(segments)
JoinSlash[segs \in Seq(Seq(STRING))] ==
  IF Len(segs) = 0 THEN <<>>
  ELSE IF Len(segs) = 1 THEN segs[1]
  ELSE segs[1] \o <<"/">> \o JoinSlash[Tail(segs)]

\* str.strip("/")
StripSlash[s \in Seq(STRING)] ==
  IF Len(s) > 0 /\ s[1] = "/" THEN StripSlash[Tail(s)]
  ELSE IF Len(s) > 0 /\ s[Len(s)] = "/" THEN StripSlash[SubSeq(s, 1, Len(s)-1)]
  ELSE s

\* urllib.parse.urljoin's removal of dot segments: ".." pops (and is dropped at
\* the top), "." is skipped.
ResolveDots[segs \in Seq(Seq(STRING)), acc \in Seq(Seq(STRING))] ==
  IF Len(segs) = 0 THEN acc
  ELSE LET seg == segs[1]
       IN IF seg = <<"..">>
            THEN ResolveDots[Tail(segs), IF Len(acc) > 0 THEN SubSeq(acc, 1, Len(acc)-1) ELSE acc]
          ELSE IF seg = <<".">> THEN ResolveDots[Tail(segs), acc]
          ELSE ResolveDots[Tail(segs), Append(acc, seg)]

\* The middle segments that are not empty (urljoin drops redundant slashes).
DropEmptyMiddle(segs) ==
  IF Len(segs) <= 2 THEN segs
  ELSE <<segs[1]>> \o SelectSeq(SubSeq(segs, 2, Len(segs)-1), LAMBDA x : x # <<>>)
                  \o <<segs[Len(segs)]>>

\* urljoin(f"{docs_dir.strip('/')}/", file_path) for a target without a scheme:
\* a target that starts with "/" replaces the whole path, any other is
\* appended to the directory and its dot segments are resolved.
UrlJoin(docs_dir, file_path) ==
  LET base == Split[StripSlash[docs_dir] \o <<"/">>]
      segs == IF Len(file_path) > 0 /\ file_path[1] = "/"
                THEN Split[file_path]
                ELSE DropEmptyMiddle(base \o Split[file_path])
      res  == ResolveDots[segs, <<>>]
      tail == IF segs[Len(segs)] \in {<<".">>, <<"..">>} THEN Append(res, <<>>) ELSE res
  IN IF file_path = <<>> THEN StripSlash[docs_dir] \o <<"/">>
     ELSE IF JoinSlash[tail] = <<>> THEN <<"/">> ELSE JoinSlash[tail]

\* os.path.dirname: what precedes the last separator.
Dirname(path) ==
  IF \A i \in 1..Len(path) : path[i] # "/" THEN <<>>
  ELSE LET k == CHOOSE i \in 1..Len(path) : path[i] = "/" /\ \A j \in (i+1)..Len(path) : path[j] # "/"
       IN IF k = 1 THEN <<"/">> ELSE SubSeq(path, 1, k-1)

\* os.path.join(a, b)
OsPathJoin(a, b) ==
  IF Len(b) > 0 /\ b[1] = "/" THEN b
  ELSE IF a = <<>> \/ a[Len(a)] = "/" THEN a \o b
  ELSE a \o <<"/">> \o b

\* str.replace("/", "__")
ReplaceSlash(s) == [i \in 1..Len(s) |-> IF s[i] = "/" THEN "__" ELSE s[i]]

\* ------------------------------------------------------------- repository

\* The job's configuration: FunctionConfig.name and the category of the docs.
ConfigName == <<"fn">>
Category == <<"user">>

\* The file names of the chain documents d1.md, d2.md, ...
DocTok == <<"d1", "d2", "d3", "d4", "d5", "d6", "d7", "d8", "d9">>

\* The link text that names chain document k (0: the root, f"{category}.md").
DocLink(k) == IF k = 0 THEN Category \o <<".md">> ELSE <<DocTok[k], ".md">>

\* Link texts a document may hold besides its chain link: the root and every
\* chain document (d(n+1).md does not exist), a second spelling of d1.md, an
\* image, a document in a subdirectory, a file above the docs directory, a
\* Markdown file with an upper-case extension, files that cannot be decoded or
\* rendered, and an absolute URL.
ExtraTexts(n) ==
  {DocLink(k) : k \in 0..(n+1)} \cup
  { <<".", "/", "d1", ".md">>, <<"img", ".png">>, <<"sub", "/", "c", ".md">>,
    <<"..", "/", "README", ".md">>, <<"notes", ".MD">>, <<"bad", ".md">>,
    <<"odd", ".md">>, <<"http", "s://example.org/x">> }

\* A file of the repository: its links in document order (Markdown only), whether
\* its bytes decode as UTF-8 and whether parse, edit and render succeed on it.
File(links, utf8, renders) == [links |-> links, utf8 |-> utf8, renders |-> renders]

NoExtra == [src |-> -1, text |-> <<>>, first |-> FALSE]

\* The links of chain document k of a chain of n: the chain link to document
\* k+1 and, on the document the extra link is for, the extra link before or
\* after it.
ChainLinks(n, k, extra) ==
  LET next == IF k < n THEN <<DocLink(k+1)>> ELSE <<>>
  IN IF extra.src # k THEN next
     ELSE IF extra.first THEN <<extra.text>> \o next
     ELSE next \o <<extra.text>>

\* The repository whose documentation lives in directory `dir`.
Repository(dir, n, extra) ==
  LET at(name) == UrlJoin(dir, name)
      chain == [p \in {at(DocLink(k)) : k \in 0..n} |->
                  LET k == CHOOSE j \in 0..n : at(DocLink(j)) = p
                  IN File(ChainLinks(n, k, extra), TRUE, TRUE)]
      fixed == (at(<<"img", ".png">>) :> File(<<>>, FALSE, TRUE))
            @@ (at(<<"sub", "/", "c", ".md">>) :> File(<<DocLink(1), <<"img", ".png">>>>, TRUE, TRUE))
            @@ (at(<<"notes", ".MD">>) :> File(<<<<"img", ".png">>>>, TRUE, TRUE))
            @@ (at(<<"bad", ".md">>) :> File(<<>>, FALSE, TRUE))
            @@ (at(<<"odd", ".md">>) :> File(<<DocLink(1)>>, TRUE, FALSE))
            @@ (<<"README", ".md">> :> File(<<DocLink(0)>>, TRUE, TRUE))
  IN chain @@ fixed

Extras(n) ==
  {NoExtra} \cup
  [src : 0..n, text : ExtraTexts(n), first : BOOLEAN]

\* Where a repository keeps its docs, and what its config.json says (docs_dir).
Layouts ==
  { [dir |-> <<"docs">>, docs_dir |-> None],
    [dir |-> <<"app", "/", "docs">>, docs_dir |-> <<>>],
    [dir |-> <<"app", "/", "docs">>, docs_dir |-> <<"/", "app", "/", "docs", "/">>],
    [dir |-> <<"manual">>, docs_dir |-> None],
    [dir |-> <<"app", "/", "docs">>, docs_dir |-> <<"docs">>] }

\* ------------------------------------------------------ test specification

\* A Python value of a test file is a token that names it. Absent marks a key
\* that a dict does not hold.
Absent == "absent"
PyNone == "None"

\* The values that are str.
Strs == {"''", "'x'", "'y'", "'a|b'"}

\* bool(v)
Truthy(v) == v \notin {"None", "False", "0", "''", "{}", "[]"}

\* v == w in Python: bool is a subclass of int, so True == 1 and False == 0.
PyEq(v, w) == v = w \/ {v, w} = {"True", "1"} \/ {v, w} = {"False", "0"}

\* dict.get(key, default)
Get(v, default) == IF v = Absent THEN default ELSE v

\* The keys the expected and actual results of the bounds use, in the order the
\* dicts hold them.
ResultKeys == <<"is_correct", "tolerance">>

\* A dict over these keys: key -> value or Absent.
Dict(is_correct, tolerance) == [k \in {"is_correct", "tolerance"} |->
                                  IF k = "is_correct" THEN is_correct ELSE tolerance]

EmptyDict == Dict(Absent, Absent)

\* What a test or sub-test entry holds under "expected_result": nothing, None,
\* a dict, or a value that is no dict (a string).
NoER == [kind |-> "absent", d |-> EmptyDict]
NoneER == [kind |-> "none", d |-> EmptyDict]
StrER == [kind |-> "str", d |-> EmptyDict]
DictER(is_correct, tolerance) == [kind |-> "dict", d |-> Dict(is_correct, tolerance)]

\* auto_tests.py:67 and 78, "not expected_result"
NotER(er) == er.kind \in {"absent", "none"} \/ (er.kind = "dict" /\ er.d = EmptyDict)

\* An entry that is taken as given.
EntryNeverRaises(er) == FALSE

\* auto_tests.py:66-75 and 77-86: whether building the SubTest of an entry
\* raises: "No expected result given for test", or AttributeError from
\* expected_result.get on a value that is no dict.
EntryRaises(er) == NotER(er) \/ er.kind # "dict"

\* auto_tests.py:70-75 and 81-86: SubTest(desc, response, is_correct, expected_result)
SubTest(desc, response, er) ==
  [desc |-> desc, response |-> response,
   is_correct |-> Get(er.d["is_correct"], PyNone),
   expected_result |-> er.d]

\* What an entry holds under "sub_tests": nothing, None, or a list of entries.
NoSubTests == [kind |-> "absent", entries |-> <<>>]
NoneSubTests == [kind |-> "none", entries |-> <<>>]
SubTestList(entries) == [kind |-> "list", entries |-> entries]

\* A test entry (test_dict) and a sub-test entry.
TestDict(answer, params, description, response, er, sub_tests) ==
  [answer |-> answer, params |-> params, description |-> description,
   response |-> response, expected_result |-> er, sub_tests |-> sub_tests]

SubTestDict(description, response, answer, er) ==
  [description |-> description, response |-> response, answer |-> answer,
   expected_result |-> er]

\* The sub-tests in the order of the list turned round.
SubTestsReversed(td) ==
  IF td.sub_tests.kind = "absent"
    THEN <<SubTest("''", Get(td.response, "''"), td.expected_result)>>
    ELSE [i \in 1..Len(td.sub_tests.entries) |->
            LET e == td.sub_tests.entries[Len(td.sub_tests.entries) + 1 - i]
            IN SubTest(Get(e.description, "''"), Get(e.response, "''"), e.expected_result)]

\* auto_tests.py:63-86: the sub_tests of a SingleTest.
SubTestsOf(td) ==
  IF td.sub_tests.kind = "absent"
    THEN <<SubTest("''", Get(td.response, "''"), td.expected_result)>>
    ELSE [i \in 1..Len(td.sub_tests.entries) |->
            LET e == td.sub_tests.entries[i]
            IN SubTest(Get(e.description, "''"), Get(e.response, "''"), e.expected_result)]

\* auto_tests.py:64-86: whether SingleTest(test_dict) raises: iterating a
\* sub_tests that is None is a TypeError.
SingleTestRaises(td) ==
  CASE td.sub_tests.kind = "none" -> TRUE
    [] td.sub_tests.kind = "list" ->
         \E i \in 1..Len(td.sub_tests.entries) : EntryRaises(td.sub_tests.entries[i].expected_result)
    [] OTHER -> EntryRaises(td.expected_result)

\* auto_tests.py:57-86: SingleTest(test_dict)
SingleTest(td) ==
  [answer |-> Get(td.answer, "''"), params |-> Get(td.params, "{}"),
   desc |-> Get(td.description, "''"), sub_tests |-> SubTestsOf(td)]

\* The concatenation of a sequence of sequences.
ConcatAll(ss) ==
  LET F[i \in 0..Len(ss)] == IF i = 0 THEN <<>> ELSE F[i - 1] \o ss[i]
  IN F[Len(ss)]

\* A response area of the JSON format, a question and a document of the YAML
\* format.
ResponseArea(params, answer, tests) == [params |-> params, answer |-> answer, tests |-> tests]
Question(title, parts) == [title |-> title, parts |-> parts]
YamlDoc(title, tests) == [title |-> title, tests |-> tests]

\* A file of the repository root named eval_tests.<ext>: whether its bytes
\* decode as UTF-8, whether json.loads / yaml.safe_load_all accept it, and the
\* value they return.
TestFileContent(ext, utf8, syntax, content) ==
  [ext |-> ext, utf8 |-> utf8, syntax |-> syntax, content |-> content]

\* The repository root holds no eval_tests.* file.
NoTestFile == TestFileContent("none", TRUE, TRUE, <<>>)

\* auto_tests.py:27-28: test.update({"answer": answer}), test.update({"params": params})
JsonTest(area, td) == [td EXCEPT !.answer = area.answer, !.params = area.params]

\* auto_tests.py:45-46: an empty params field is added if none was provided.
YamlTest(td) == IF Get(td.params, PyNone) = PyNone THEN [td EXCEPT !.params = "{}"] ELSE td

\* auto_tests.py:19-30: the tests of one question, over its parts and their
\* response areas.
JsonTests(q) ==
  ConcatAll([p \in 1..Len(q.parts) |->
    ConcatAll([a \in 1..Len(q.parts[p]) |->
      [t \in 1..Len(q.parts[p][a].tests) |->
         SingleTest(JsonTest(q.parts[p][a], q.parts[p][a].tests[t]))]])])

\* auto_tests.py:16-35: whether the JSON branch raises: a syntax error, a
\* missing key (title, params, answer), or a SingleTest that raises.
JsonRaises(f) ==
  \/ ~f.syntax
  \/ \E q \in 1..Len(f.content) :
       \/ f.content[q].title = Absent
       \/ \E p \in 1..Len(f.content[q].parts) : \E a \in 1..Len(f.content[q].parts[p]) :
            LET area == f.content[q].parts[p][a]
            IN \/ area.params = Absent
               \/ area.answer = Absent
               \/ \E t \in 1..Len(area.tests) : SingleTestRaises(JsonTest(area, area.tests[t]))

\* auto_tests.py:37-52: whether the YAML branch raises.
YamlRaises(f) ==
  \/ ~f.syntax
  \/ \E d \in 1..Len(f.content) : \E t \in 1..Len(f.content[d].tests) :
       SingleTestRaises(YamlTest(f.content[d].tests[t]))

\* auto_tests.py:10-54: whether TestFile(file_content, file_name) raises.
TestFileRaises(f) ==
  CASE f.ext = "json" -> JsonRaises(f)
    [] f.ext = "yaml" -> YamlRaises(f)
    [] OTHER -> TRUE

\* auto_tests.py:10-54: the groups of TestFile(file_content, file_name).
TestFileGroups(f) ==
  IF f.ext = "json"
    THEN [q \in 1..Len(f.content) |->
            [title |-> f.content[q].title, tests |-> JsonTests(f.content[q])]]
    ELSE [d \in 1..Len(f.content) |->
            [title |-> Get(f.content[d].title, "''"),
             tests |-> [t \in 1..Len(f.content[d].tests) |->
                          SingleTest(YamlTest(f.content[d].tests[t]))]]]

\* FetchDocsJob._test_file: None, or the TestFile with its groups.
NoTestModel == [set |-> FALSE, groups |-> <<>>]
TestFile(f) == [set |-> TRUE, groups |-> TestFileGroups(f)]

\* loader_fetch.py:364-367, input.replace: raises AttributeError on a value
\* that is no str.
SanitiseRaises(v) == v \notin Strs

\* loader_fetch.py:191-215: whether appending the examples raises: every
\* sub-test's response and its test's answer go through sanitise_response.
ExamplesRaise(tf) ==
  /\ tf.set
  /\ \E g \in 1..Len(tf.groups) : \E t \in 1..Len(tf.groups[g].tests) :
       LET test == tf.groups[g].tests[t]
       IN \E i \in 1..Len(test.sub_tests) :
            SanitiseRaises(test.sub_tests[i].response) \/ SanitiseRaises(test.answer)

\* A test that parses and whose values are strings.
FillerTest == TestDict("'x'", Absent, Absent, "'x'", DictER("True", Absent), NoSubTests)

\* A YAML file of one document with the given tests.
OneDoc(utf8, tests) == TestFileContent("yaml", utf8, TRUE, <<YamlDoc("'x'", tests)>>)

\* What the repository root of a fetch job holds under the name eval_tests.*:
\* nothing, a file that parses, one with a test that lacks expected_result,
\* one whose bytes are not UTF-8, and one that parses and has a number as a
\* response.
EvalTestsKinds(n) ==
  IF n <= 1
    THEN { NoTestFile,
           OneDoc(TRUE, <<FillerTest>>),
           OneDoc(TRUE, <<FillerTest, [FillerTest EXCEPT !.expected_result = NoER]>>),
           OneDoc(FALSE, <<FillerTest>>),
           OneDoc(TRUE, <<[FillerTest EXCEPT !.response = "0"]>>) }
    ELSE {NoTestFile}

\* ------------------------------------------------------------------ state

VARIABLES
  files,            \* the remote repository: canonical path -> File
  eval_tests,       \* what the repository root holds as eval_tests.*
  docs_dir,         \* FunctionConfig.docs_dir, as configured
  remote_docs_dir,  \* FetchDocsJob._remote_docs_dir
  visited_files,    \* FetchDocsJob._visited_files
  test_file,        \* FetchDocsJob._test_file
  results,          \* fetch's list of DocsFile
  written,          \* the files of the output directory
  stack,            \* the calls of _fetch_and_process_file in progress
  status,           \* "new", "running", "returned" or "raised"
  bundle,           \* what fetch returned: <<>> or <<the DocsBundle>>
  renderer_lock,    \* loader_fetch.renderer_lock: "free" or its holder
  requests,         \* history: the repo.get_contents calls for document paths
  served,           \* history: per path, how often its content was returned (up to 2)
  trace,            \* history: for each element of results, the call it is from
  warnings,         \* history: what logger.warning was called for
  transients,       \* history: requests that failed although the path exists
  workers,          \* FunctionLoader.load: the pool's threads, one per repository
  pool_docs,        \* FunctionLoader.load: the list docs
  load_status,      \* FunctionLoader.load: "running", "returned" or "raised"
  plugin,           \* EvalDocsLoader.on_config: its outcome and EvalDocsLoader._files
  run,              \* one run of a SingleTest: evaluate_all, then compare_all
  doc,              \* the mistletoe Document _process_file works on
  link_loader       \* the _MarkdownLinkCollector of _process_file

jobvars == <<files, eval_tests, docs_dir, remote_docs_dir, visited_files, test_file,
             results, written, stack, status, bundle, renderer_lock, requests,
             served, trace, warnings, transients>>

vars == <<files, eval_tests, docs_dir, remote_docs_dir, visited_files, test_file,
          results, written, stack, status, bundle, renderer_lock, requests,
          served, trace, warnings, transients, workers, pool_docs, load_status,
          plugin, run, doc, link_loader>>

poolvars == <<workers, pool_docs, load_status, plugin>>

docvars == <<doc, link_loader>>

\* EvalDocsLoader before on_config: _loader is None and _files is [].
NoPlugin == [state |-> "pending", error |-> "", files |-> <<>>]

\* No document is being processed: no Document, and a collector that has
\* rendered no token and holds no link pair.
NoDoc == [pc |-> "idle", category |-> "", source |-> <<>>, tokens |-> <<>>,
          children |-> <<>>]
NoLinks == [rendered |-> 0, links |-> <<>>]

\* No SingleTest is being run.
NoRun == [pc |-> "idle", g |-> 0, t |-> 0, results |-> <<>>, calls |-> <<>>,
          passed |-> FALSE, failed_at |-> 0]

\* FetchDocsJob.__init__
BaseDir == <<"user_eval_function_docs">>
OutDir == <<"tmp">>

\* ---------------------------------------------------------------- helpers

Top == stack[Len(stack)]

Pop(s) == SubSeq(s, 1, Len(s) - 1)

\* One call of _fetch_and_process_file: its arguments, where it is ("call": at
\* its first line, "process": inside _process_file's with block, "children":
\* in the loop over the links), the file it fetched, the link pairs and the
\* index of the next one; cpath is the position of the call in the call tree.
Frame(remote, out, level, cpath) ==
  [remote |-> remote, out |-> out, level |-> level, pc |-> "call",
   file |-> None, links |-> <<>>, i |-> 1, cpath |-> cpath]

\* The lambda handed to _MarkdownLinkCollector: the local name of a link.
GenerateLink(p) == OsPathJoin(ConfigName, ReplaceSlash(p))

\* _MarkdownLinkCollector._collect_link: what the link's target becomes.
CollectLink(link_url) ==
  IF StartsWithHttp(link_url) THEN link_url ELSE GenerateLink(link_url)

\* link_loader.links after render: a pair for every relative link, in order.
RECURSIVE CollectedLinks(_)
CollectedLinks(links) ==
  IF Len(links) = 0 THEN <<>>
  ELSE IF StartsWithHttp(links[1]) THEN CollectedLinks(Tail(links))
  ELSE <<[remote |-> links[1], out |-> GenerateLink(links[1])]>> \o CollectedLinks(Tail(links))

\* The document after link_loader.render: every link target, rewritten.
RewrittenTargets(links) == [k \in 1..Len(links) |-> CollectLink(links[k])]

\* _edit_url
EditUrl(path) == <<"html_url", "/", "blob", "/", "main", "/">> \o path

\* The paths _fetch_file asks the repository for, in order: with no docs
\* directory known, _locate_file's "docs" and then "app/docs".
FetchPlan(file_path, dir) ==
  IF Falsy(dir)
    THEN <<UrlJoin(<<"docs">>, file_path), UrlJoin(<<"app", "/", "docs">>, file_path)>>
    ELSE <<UrlJoin(dir, file_path)>>

\* A guard that lets one more level through.
DepthExceededLate(level) == level > MaxLevel + 1

\* line 82
DepthExceeded(level) == level > MaxLevel

\* A check that never finds the path.
NeverVisited(path, visited) == FALSE

\* line 90
AlreadyVisited(path, visited) == path \in visited

\* The directory taken from every fetched file.
RefixDocsDir(dir, path) == Dirname(path)

\* lines 97-98
FixDocsDir(dir, path) == IF Falsy(dir) THEN Dirname(path) ELSE dir

\* The file put at the front of the list.
PrependResult(rs, f) == <<f>> \o rs

\* line 110
AppendResult(rs, f) == Append(rs, f)

\* line 121: the level of the call for a link
ChildLevel(level) == level + 1

\* A loop that stays on its pair.
SameIndex(i) == i

\* line 119: the loop moves on to the next pair
NextIndex(i) == i + 1

\* An exception that no caller catches.
UnwindAll(s) == <<>>

\* lines 120-123: an exception leaves the call it is raised in and is caught by
\* the loop of the caller.
Unwind(s) == Pop(s)

\* An exception leaves the running call. The caller's loop logs it; from the
\* root call it leaves fetch.
Throw ==
  /\ stack' = Unwind(stack)
  /\ IF Len(Unwind(stack)) = 0
       THEN /\ status' = "raised"
            /\ warnings' = warnings
       ELSE /\ status' = status
            /\ warnings' = warnings \cup {[kind |-> "failed", link |-> Top.remote]}

\* The call returns to the loop of its caller.
Return ==
  /\ stack' = Pop(stack)
  /\ UNCHANGED status

\* with open(out_path, "wb") as fw: fw.write(out_data)
WriteFile(out_file_path, path, targets) ==
  written' = {w \in written : w.path # OsPathJoin(OutDir, out_file_path)}
             \cup {[path |-> OsPathJoin(OutDir, out_file_path), src |-> path, targets |-> targets,
                    examples |-> test_file.set /\ EndsWithMd(path) /\ Category = <<"user">>]}

\* ------------------------------------------------------------------- job

\* The state after FetchDocsJob.__init__, for every repository, configuration
\* and eval_tests file of the bounds.
Init ==
  /\ \E n \in 0..MaxChain : \E extra \in Extras(n) : \E lay \in Layouts :
       \E et \in EvalTestsKinds(n) :
         /\ files = Repository(lay.dir, n, extra)
         /\ docs_dir = lay.docs_dir
         /\ eval_tests = et
  /\ remote_docs_dir = docs_dir
  /\ visited_files = {}
  /\ test_file = NoTestModel
  /\ results = <<>>
  /\ written = {}
  /\ stack = <<>>
  /\ status = "new"
  /\ bundle = <<>>
  /\ renderer_lock = "free"
  /\ requests = {}
  /\ served = [p \in DOMAIN files |-> 0]
  /\ trace = <<>>
  /\ warnings = {}
  /\ transients = 0
  /\ workers = <<>>
  /\ pool_docs = <<>>
  /\ load_status = "idle"
  /\ plugin = NoPlugin
  /\ doc = NoDoc
  /\ link_loader = NoLinks
  /\ run = NoRun

\* loader_fetch.py:250-255: the TestFile parsed from the eval_tests.* file,
\* None without such a file or when TestFile raises (the exception is logged).
ParsedTestFile(f) == IF f = NoTestFile \/ TestFileRaises(f) THEN NoTestModel ELSE TestFile(f)

\* fetch, lines 59-64: the test file is fetched and the root call starts.
FetchStart ==
  /\ status = "new"
  /\ eval_tests.utf8
  /\ status' = "running"
  /\ test_file' = ParsedTestFile(eval_tests)
  /\ warnings' = IF eval_tests # NoTestFile /\ TestFileRaises(eval_tests)
                   THEN warnings \cup {[kind |-> "testfile", link |-> <<>>]} ELSE warnings
  /\ stack' = <<Frame(Category \o <<".md">>, ConfigName \o <<".md">>, 0, <<>>)>>
  /\ UNCHANGED <<files, eval_tests, docs_dir, remote_docs_dir, visited_files, results,
                 written, bundle, renderer_lock, requests, served, trace, transients>>
  /\ UNCHANGED <<poolvars, run, docvars>>

\* fetch, line 63, and _fetch_test_file, line 249: the bytes of the eval_tests.*
\* file are not UTF-8; str() raises outside the try, and fetch raises.
FetchTestFileRaises ==
  /\ status = "new"
  /\ ~eval_tests.utf8
  /\ status' = "raised"
  /\ UNCHANGED <<files, eval_tests, docs_dir, remote_docs_dir, visited_files, test_file,
                 results, written, stack, bundle, renderer_lock, requests, served,
                 trace, warnings, transients>>
  /\ UNCHANGED <<poolvars, run, docvars>>

\* fetch, line 63: listing the repository root fails, and fetch raises.
FetchStartFails ==
  /\ status = "new"
  /\ transients < MaxTransient
  /\ transients' = transients + 1
  /\ status' = "raised"
  /\ UNCHANGED <<files, eval_tests, docs_dir, remote_docs_dir, visited_files, test_file,
                 results, written, stack, bundle, renderer_lock, requests, served,
                 trace, warnings>>
  /\ UNCHANGED <<poolvars, run, docvars>>

\* lines 82-84: the call is too deep; it logs a warning and returns.
CallTooDeep ==
  /\ status = "running" /\ Len(stack) > 0 /\ Top.pc = "call"
  /\ DepthExceeded(Top.level)
  /\ warnings' = warnings \cup {[kind |-> "depth", link |-> Top.remote]}
  /\ Return
  /\ UNCHANGED <<files, eval_tests, docs_dir, remote_docs_dir, visited_files, test_file,
                 results, written, bundle, renderer_lock, requests, served, trace,
                 transients>>
  /\ UNCHANGED <<poolvars, run, docvars>>

\* Whether request j of the plan returns content: the path exists and the
\* request is not one of those that fail this time.
Serves(plan, j, fails) == plan[j] \in DOMAIN files /\ j \notin fails

\* The requests _fetch_file makes: up to the first that returns content.
Made(plan, fails) ==
  {j \in 1..Len(plan) : \A k \in 1..(j-1) : ~Serves(plan, k, fails)}

\* The sets of requests that may fail although their path exists.
FailChoices(plan) ==
  {fails \in SUBSET (1..Len(plan)) :
     /\ Cardinality(fails) <= MaxTransient - transients
     /\ \A j \in fails : plan[j] \in DOMAIN files /\ j \in Made(plan, fails)}

\* The bookkeeping of the requests of one _fetch_file.
Record(plan, fails, link) ==
  /\ requests' = requests \cup
       {[path |-> plan[j], link |-> link, dir |-> remote_docs_dir, level |-> Top.level,
         ok |-> Serves(plan, j, fails)] : j \in Made(plan, fails)}
  /\ served' = [p \in DOMAIN served |->
                  IF \E j \in Made(plan, fails) : Serves(plan, j, fails) /\ plan[j] = p
                    THEN IF served[p] < 2 THEN served[p] + 1 ELSE 2
                    ELSE served[p]]
  /\ transients' = transients + Cardinality(fails)

\* The file _fetch_file returns (its canonical path), when a request is served.
Fetched(plan, fails) ==
  plan[CHOOSE j \in Made(plan, fails) : Serves(plan, j, fails)]

\* line 87: _fetch_file raises (no request returns content).
CallFetchFails ==
  /\ status = "running" /\ Len(stack) > 0 /\ Top.pc = "call"
  /\ ~DepthExceeded(Top.level)
  /\ \E plan \in {FetchPlan(Top.remote, remote_docs_dir)} :
        \E fails \in FailChoices(plan) :
          /\ \A j \in 1..Len(plan) : ~Serves(plan, j, fails)
          /\ Record(plan, fails, Top.remote)
  /\ Throw
  /\ UNCHANGED <<files, eval_tests, docs_dir, remote_docs_dir, visited_files, test_file,
                 results, written, bundle, renderer_lock, trace>>
  /\ UNCHANGED <<poolvars, run, docvars>>

\* lines 87-91: the file is fetched and was visited before; the call returns.
CallVisited ==
  /\ status = "running" /\ Len(stack) > 0 /\ Top.pc = "call"
  /\ ~DepthExceeded(Top.level)
  /\ \E plan \in {FetchPlan(Top.remote, remote_docs_dir)} :
        \E fails \in FailChoices(plan) :
          /\ \E j \in 1..Len(plan) : Serves(plan, j, fails)
          /\ AlreadyVisited(Fetched(plan, fails), visited_files)
          /\ Record(plan, fails, Top.remote)
  /\ Return
  /\ UNCHANGED <<files, eval_tests, docs_dir, remote_docs_dir, visited_files, test_file,
                 results, written, bundle, renderer_lock, trace, warnings>>
  /\ UNCHANGED <<poolvars, run, docvars>>

\* lines 87-116 for a file that is not Markdown: it is marked visited, copied
\* as it is and appended to the results; it has no links.
CallCopy ==
  /\ status = "running" /\ Len(stack) > 0 /\ Top.pc = "call"
  /\ ~DepthExceeded(Top.level)
  /\ \E plan \in {FetchPlan(Top.remote, remote_docs_dir)} :
        \E fails \in FailChoices(plan) :
          /\ \E j \in 1..Len(plan) : Serves(plan, j, fails)
          /\ LET path == Fetched(plan, fails)
                 out_file_path == OsPathJoin(BaseDir, Top.out)
             IN /\ ~AlreadyVisited(path, visited_files)
                /\ ~EndsWithMd(path)
                /\ visited_files' = visited_files \cup {path}
                /\ remote_docs_dir' = FixDocsDir(remote_docs_dir, path)
                /\ WriteFile(out_file_path, path, <<>>)
                /\ results' = AppendResult(results,
                     [dir |-> OutDir, file_path |-> out_file_path, edit_uri |-> EditUrl(path)])
                /\ trace' = Append(trace, Top.cpath)
                /\ stack' = [stack EXCEPT ![Len(stack)].pc = "children",
                                          ![Len(stack)].file = path]
          /\ Record(plan, fails, Top.remote)
  /\ UNCHANGED <<files, eval_tests, docs_dir, test_file, status, bundle, renderer_lock,
                 warnings>>
  /\ UNCHANGED <<poolvars, run, docvars>>

\* lines 87-103 and 131 for a Markdown file whose bytes are not UTF-8: it is
\* marked visited and str() raises, before the lock is taken.
CallDecodeFails ==
  /\ status = "running" /\ Len(stack) > 0 /\ Top.pc = "call"
  /\ ~DepthExceeded(Top.level)
  /\ \E plan \in {FetchPlan(Top.remote, remote_docs_dir)} :
        \E fails \in FailChoices(plan) :
          /\ \E j \in 1..Len(plan) : Serves(plan, j, fails)
          /\ LET path == Fetched(plan, fails)
             IN /\ ~AlreadyVisited(path, visited_files)
                /\ EndsWithMd(path)
                /\ ~files[path].utf8
                /\ visited_files' = visited_files \cup {path}
                /\ remote_docs_dir' = FixDocsDir(remote_docs_dir, path)
          /\ Record(plan, fails, Top.remote)
  /\ Throw
  /\ UNCHANGED <<files, eval_tests, docs_dir, test_file, results, written, bundle,
                 renderer_lock, trace>>
  /\ UNCHANGED <<poolvars, run, docvars>>

\* lines 87-103 and 143 for a Markdown file: it is marked visited and
\* _process_file enters the with block, taking the lock.
CallEnterProcess ==
  /\ status = "running" /\ Len(stack) > 0 /\ Top.pc = "call"
  /\ ~DepthExceeded(Top.level)
  /\ renderer_lock = "free"
  /\ \E plan \in {FetchPlan(Top.remote, remote_docs_dir)} :
        \E fails \in FailChoices(plan) :
          /\ \E j \in 1..Len(plan) : Serves(plan, j, fails)
          /\ LET path == Fetched(plan, fails)
             IN /\ ~AlreadyVisited(path, visited_files)
                /\ EndsWithMd(path)
                /\ files[path].utf8
                /\ visited_files' = visited_files \cup {path}
                /\ remote_docs_dir' = FixDocsDir(remote_docs_dir, path)
                /\ stack' = [stack EXCEPT ![Len(stack)].pc = "process",
                                          ![Len(stack)].file = path]
          /\ Record(plan, fails, Top.remote)
  /\ renderer_lock' = "job"
  /\ UNCHANGED <<files, eval_tests, docs_dir, test_file, results, written, status,
                 bundle, trace, warnings>>
  /\ UNCHANGED <<poolvars, run, docvars>>

\* lines 143-165 and 105-116: the document is parsed, its links are rewritten
\* and collected, it is edited and rendered; the lock is released, the output
\* is written and appended to the results.
ProcessDone ==
  /\ status = "running" /\ Len(stack) > 0 /\ Top.pc = "process"
  /\ files[Top.file].renders
  /\ ~ExamplesRaise(test_file)
  /\ renderer_lock' = "free"
  /\ LET out_file_path == OsPathJoin(BaseDir, Top.out)
         links == files[Top.file].links
     IN /\ WriteFile(out_file_path, Top.file, RewrittenTargets(links))
        /\ results' = AppendResult(results,
             [dir |-> OutDir, file_path |-> out_file_path, edit_uri |-> EditUrl(Top.file)])
        /\ trace' = Append(trace, Top.cpath)
        /\ stack' = [stack EXCEPT ![Len(stack)].pc = "children",
                                  ![Len(stack)].links = CollectedLinks(links)]
  /\ UNCHANGED <<files, eval_tests, docs_dir, remote_docs_dir, visited_files, test_file,
                 status, bundle, requests, served, warnings, transients>>
  /\ UNCHANGED <<poolvars, run, docvars>>

\* lines 143-165: parsing, editing or rendering raises; the with statement
\* releases the lock and the exception leaves the call.
ProcessFails ==
  /\ status = "running" /\ Len(stack) > 0 /\ Top.pc = "process"
  /\ ~files[Top.file].renders \/ ExamplesRaise(test_file)
  /\ renderer_lock' = "free"
  /\ Throw
  /\ UNCHANGED <<files, eval_tests, docs_dir, remote_docs_dir, visited_files, test_file,
                 results, written, bundle, requests, served, trace, transients>>
  /\ UNCHANGED <<poolvars, run, docvars>>

\* lines 119-121: the loop calls _fetch_and_process_file for the next pair.
NextChild ==
  /\ status = "running" /\ Len(stack) > 0 /\ Top.pc = "children"
  /\ Top.i <= Len(Top.links)
  /\ stack' = Append([stack EXCEPT ![Len(stack)].i = NextIndex(Top.i)],
                     Frame(Top.links[Top.i].remote, Top.links[Top.i].out,
                           ChildLevel(Top.level), Append(Top.cpath, Top.i)))
  /\ UNCHANGED <<files, eval_tests, docs_dir, remote_docs_dir, visited_files, test_file,
                 results, written, status, bundle, renderer_lock, requests, served,
                 trace, warnings, transients>>
  /\ UNCHANGED <<poolvars, run, docvars>>

\* line 119: no pair is left; the call returns.
CallReturns ==
  /\ status = "running" /\ Len(stack) > 0 /\ Top.pc = "children"
  /\ Top.i > Len(Top.links)
  /\ Return
  /\ UNCHANGED <<files, eval_tests, docs_dir, remote_docs_dir, visited_files, test_file,
                 results, written, bundle, renderer_lock, requests, served, trace,
                 warnings, transients>>
  /\ UNCHANGED <<poolvars, run, docvars>>

\* fetch, lines 66-69: the root call has returned; the bundle is built
\* (results[0] raises IndexError on an empty list).
FetchReturns ==
  /\ status = "running" /\ Len(stack) = 0
  /\ IF Len(results) = 0
       THEN status' = "raised" /\ bundle' = bundle
       ELSE /\ status' = "returned"
            /\ bundle' = <<[main |-> results[1],
                           supplementary |-> IF Len(results) > 1 THEN Tail(results) ELSE <<>>]>>
  /\ UNCHANGED <<files, eval_tests, docs_dir, remote_docs_dir, visited_files, test_file,
                 results, written, stack, renderer_lock, requests, served, trace,
                 warnings, transients>>
  /\ UNCHANGED <<poolvars, run, docvars>>

Next ==
  \/ FetchStart
  \/ FetchStartFails
  \/ FetchTestFileRaises
  \/ CallTooDeep
  \/ CallFetchFails
  \/ CallVisited
  \/ CallCopy
  \/ CallDecodeFails
  \/ CallEnterProcess
  \/ ProcessDone
  \/ ProcessFails
  \/ NextChild
  \/ CallReturns
  \/ FetchReturns

Spec == Init /\ [][Next]_vars

\* The job's thread keeps running, and every request to the remote returns or
\* raises: no step that can be taken is put off for ever.
FairSpec == Spec /\ WF_vars(Next)

Terminated == status \in {"returned", "raised"}

\* ------------------------------------------------------------------ tests

\* The expected results, responses, answers and params of the test entries of
\* the bounds.
ERs ==
  { NoER, NoneER, StrER, DictER(Absent, Absent),
    DictER("True", Absent), DictER("False", Absent), DictER("True", "0.01"),
    DictER(Absent, "0.01"), DictER("True", "None"), DictER("'x'", Absent),
    DictER("True", "0") }
Responses == {Absent, "'a|b'", "0", "None"}
Answers == {Absent, "'x'", "1"}
Params == {Absent, "None", "{p}"}

\* All sequences of at most n elements of S.
SeqsUpTo(S, n) == UNION {[1..k -> S] : k \in 0..n}

\* The sub-test entries of the bounds; each carries an answer of its own.
SubEntries ==
  {SubTestDict(Absent, r, "'y'", DictER("True", Absent)) : r \in {"'x'", "0"}}
  \cup {SubTestDict("'x'", "'x'", "'y'", er) :
          er \in {DictER("False", "0.01"), NoER, DictER(Absent, "0.01")}}

\* The test entries of the bounds: without sub_tests, over the expected
\* results and responses and over the answers and params; with sub_tests, over
\* the lists of entries.
RichTests ==
  {TestDict("'x'", Absent, Absent, r, er, NoSubTests) : r \in Responses, er \in ERs}
  \cup {TestDict(a, p, "'x'", "'x'", DictER("True", Absent), NoSubTests) :
          a \in Answers, p \in Params}
  \cup {TestDict("'x'", p, Absent, Absent, er, st) :
          p \in {Absent, "{p}"}, er \in {NoER, DictER("True", Absent)},
          st \in {NoneSubTests} \cup {SubTestList(es) : es \in SeqsUpTo(SubEntries, MaxSubTests)}}

\* k groups of m filler tests each, with test t of group g replaced by td.
GroupsWith(k, m, g, t, td) ==
  [i \in 1..k |-> [j \in 1..m |-> IF i = g /\ j = t THEN td ELSE FillerTest]]

\* The same groups as the documents of a YAML file and as the questions of a
\* JSON file (one part with one response area each, the last question with a
\* second part).
AsYaml(groups) == [i \in 1..Len(groups) |-> YamlDoc(IF i = 1 THEN Absent ELSE "'x'", groups[i])]
AsJson(groups) ==
  [i \in 1..Len(groups) |->
     Question("'x'",
       IF i = Len(groups)
         THEN <<<<ResponseArea("{p}", "'y'", groups[i])>>, <<ResponseArea("{}", "'x'", <<FillerTest>>)>>>>
         ELSE <<<<ResponseArea("{p}", "'y'", groups[i])>>>>)]

\* The eval_tests.* files of the bounds.
TestFiles ==
  {TestFileContent("yaml", TRUE, TRUE, AsYaml(GroupsWith(k, m, g, t, td))) :
     k \in 1..MaxGroups, m \in 1..MaxTests, g \in 1..MaxGroups, t \in 1..MaxTests, td \in RichTests}
  \cup {TestFileContent("json", TRUE, TRUE, AsJson(GroupsWith(k, m, g, t, td))) :
     k \in 1..MaxGroups, m \in 1..MaxTests, g \in 1..MaxGroups, t \in 1..MaxTests, td \in RichTests}
  \cup { TestFileContent("yaml", TRUE, FALSE, <<>>), TestFileContent("json", TRUE, FALSE, <<>>),
         TestFileContent("yaml", TRUE, TRUE, <<>>), TestFileContent("json", TRUE, TRUE, <<>>),
         TestFileContent("txt", TRUE, TRUE, <<>>), OneDoc(FALSE, <<FillerTest>>),
         TestFileContent("json", TRUE, TRUE, <<Question(Absent, <<>>)>>),
         TestFileContent("json", TRUE, TRUE,
           <<Question("'x'", <<<<ResponseArea(Absent, "'y'", <<FillerTest>>)>>>>)>>),
         TestFileContent("json", TRUE, TRUE,
           <<Question("'x'", <<<<ResponseArea("{p}", Absent, <<FillerTest>>)>>>>)>>) }

\* The state before _fetch_test_file, for one eval_tests.* file.
InitTestFile(f) ==
  /\ eval_tests = f
  /\ test_file = NoTestModel
  /\ run = [NoRun EXCEPT !.pc = "start"]
  /\ files = <<>>
  /\ docs_dir = None
  /\ remote_docs_dir = None
  /\ visited_files = {}
  /\ results = <<>>
  /\ written = {}
  /\ stack = <<>>
  /\ status = "idle"
  /\ bundle = <<>>
  /\ renderer_lock = "free"
  /\ requests = {}
  /\ served = <<>>
  /\ trace = <<>>
  /\ warnings = {}
  /\ transients = 0
  /\ workers = <<>>
  /\ pool_docs = <<>>
  /\ load_status = "idle"
  /\ plugin = NoPlugin
  /\ doc = NoDoc
  /\ link_loader = NoLinks

InitParse == \E f \in TestFiles : InitTestFile(f)

\* What the test actions leave alone.
othervars == <<files, docs_dir, remote_docs_dir, visited_files, results, written, stack,
               status, bundle, renderer_lock, requests, served, trace, transients,
               workers, pool_docs, load_status, plugin, doc, link_loader>>

\* loader_fetch.py:246-251: the file decodes and TestFile(...) returns; the
\* TestFile is stored in self._test_file.
TestFileParses ==
  /\ run.pc = "start"
  /\ eval_tests.utf8 /\ ~TestFileRaises(eval_tests)
  /\ test_file' = TestFile(eval_tests)
  /\ run' = [run EXCEPT !.pc = "ready"]
  /\ UNCHANGED <<eval_tests, warnings>>
  /\ UNCHANGED othervars

\* loader_fetch.py:250-255: TestFile(...) raises; the exception is logged and
\* self._test_file is left as None.
TestFileFails ==
  /\ run.pc = "start"
  /\ eval_tests.utf8 /\ TestFileRaises(eval_tests)
  /\ warnings' = warnings \cup {[kind |-> "testfile", link |-> <<>>]}
  /\ run' = [run EXCEPT !.pc = "failed"]
  /\ UNCHANGED <<eval_tests, test_file>>
  /\ UNCHANGED othervars

\* loader_fetch.py:249: str(root_file.decoded_content, "utf-8") raises.
TestFileUndecodable ==
  /\ run.pc = "start"
  /\ ~eval_tests.utf8
  /\ run' = [run EXCEPT !.pc = "raised"]
  /\ UNCHANGED <<eval_tests, test_file, warnings>>
  /\ UNCHANGED othervars

NextParse ==
  \/ TestFileParses
  \/ TestFileFails
  \/ TestFileUndecodable

SpecParse == InitParse /\ [][NextParse]_vars

\* Where the SingleTests of the parsed TestFile are: group and index (a
\* question of the bounds has one test more than a document).
AllTests == {<<g, t>> : g \in 1..MaxGroups, t \in 1..MaxTests + 1}
ParsedTests ==
  {gt \in AllTests :
     /\ gt[1] <= Len(test_file.groups)
     /\ gt[2] <= Len(test_file.groups[gt[1]].tests)}
TestAt(gt) == test_file.groups[gt[1]].tests[gt[2]]

\* ----------------------------------------------------------------- runner

\* The tests the runner is given: single tests over the expected results and
\* over the answers and params, and tests with sub_tests over the lists of
\* entries.
RunERs ==
  { DictER("True", Absent), DictER("False", Absent), DictER("True", "0.01"),
    DictER("True", "None"), DictER(Absent, "0.01") }
RunEntries ==
  { SubTestDict(Absent, "'x'", "'y'", DictER("True", Absent)),
    SubTestDict(Absent, "0", "'y'", DictER("False", "0.01")),
    SubTestDict("'x'", "'a|b'", "'y'", DictER("True", "None")) }
RunTests ==
  {TestDict("'x'", Absent, Absent, "'x'", er, NoSubTests) : er \in RunERs}
  \cup {TestDict("1", "{p}", Absent, "0", DictER("True", Absent), NoSubTests)}
  \cup {TestDict("'x'", p, Absent, Absent, NoER, SubTestList(es)) :
          p \in {Absent, "{p}"}, es \in SeqsUpTo(RunEntries, MaxSubTests)}

\* What the evaluation function may return: is_correct, and the further key
\* absent, equal to the expected 0.01, different, or None.
ActualResults == {Dict(c, t) : c \in {"True", "False"}, t \in {Absent, "0.01", "0.02", "None"}}

\* A file of one document holding a test of the runner and a sibling; and the
\* files on which _fetch_test_file stores no TestFile.
InitRun ==
  \E f \in {OneDoc(TRUE, <<td, FillerTest>>) : td \in RunTests}
           \cup {OneDoc(FALSE, <<FillerTest>>), TestFileContent("txt", TRUE, TRUE, <<>>)} :
    InitTestFile(f)

\* The SingleTest being run.
RunTest == test_file.groups[run.g].tests[run.t]

\* The runner takes a SingleTest of the TestFile; nothing has been evaluated.
StartRun ==
  /\ run.pc \in {"ready", "done"}
  /\ \E gt \in ParsedTests :
       run' = [NoRun EXCEPT !.pc = "evaluating", !.g = gt[1], !.t = gt[2]]
  /\ UNCHANGED <<eval_tests, test_file, warnings>>
  /\ UNCHANGED othervars

\* auto_tests.py:88-89: evaluate_all calls func for the next sub-test, with
\* the response of the sub-test and the answer and params of the test.
EvaluateNext ==
  /\ run.pc = "evaluating"
  /\ Len(run.results) < Len(RunTest.sub_tests)
  /\ \E actual \in ActualResults :
       run' = [run EXCEPT
                 !.results = Append(@, actual),
                 !.calls = Append(@, [response |-> RunTest.sub_tests[Len(run.results) + 1].response,
                                      answer |-> RunTest.answer,
                                      params |-> RunTest.params])]
  /\ UNCHANGED <<eval_tests, test_file, warnings>>
  /\ UNCHANGED othervars

\* auto_tests.py:92-115: whether compare_all returns False at a sub-test.
Mismatch(sub, actual) ==
  \/ ~PyEq(actual["is_correct"], sub.is_correct)
  \/ \E k \in 1..Len(ResultKeys) :
       /\ sub.expected_result[ResultKeys[k]] # Absent
       /\ \/ Get(actual[ResultKeys[k]], PyNone) = PyNone
          \/ ~PyEq(actual[ResultKeys[k]], sub.expected_result[ResultKeys[k]])

\* auto_tests.py:91-117: the index of the sub-test at which compare_all
\* returns False, 0 when it returns (True, "").
FirstMismatch(test, eval_results) ==
  LET bad == {i \in 1..Len(eval_results) : Mismatch(test.sub_tests[i], eval_results[i])}
  IN IF bad = {} THEN 0 ELSE CHOOSE i \in bad : \A j \in bad : i <= j

\* auto_tests.py:91-117: compare_all on the list evaluate_all has returned.
CompareAll ==
  /\ run.pc = "evaluating"
  /\ Len(run.results) = Len(RunTest.sub_tests)
  /\ run' = [run EXCEPT !.pc = "done",
                        !.failed_at = FirstMismatch(RunTest, run.results),
                        !.passed = (FirstMismatch(RunTest, run.results) = 0)]
  /\ UNCHANGED <<eval_tests, test_file, warnings>>
  /\ UNCHANGED othervars

NextRun ==
  \/ TestFileParses
  \/ TestFileFails
  \/ TestFileUndecodable
  \/ StartRun
  \/ EvaluateNext
  \/ CompareAll

SpecRun == InitRun /\ [][NextRun]_vars

\* ------------------------------------------------------------------ links

\* The targets of the links of a document: with a scheme (http, https, mailto,
\* ftp), and without one: two files whose paths differ in "/" against "__", a
\* file in the docs directory, and a file whose name begins with "http".
AbsoluteTargets ==
  { <<"http", "://example.org/x">>, <<"http", "s://example.org/x">>,
    <<"mailto:", "a@example.org">>, <<"ftp://", "example.org/f">> }
RelativeTargets ==
  { <<"a", "/", "b", ".md">>, <<"a", "__", "b", ".md">>, <<"d1", ".md">>,
    <<"http", "-api", ".md">> }

\* A Link, AutoLink or Image token and its target (Image.src).
LinkToken(kind, target) == [kind |-> kind, target |-> target]

\* The tokens of the bounds: links to every target, auto-links to addresses
\* with a scheme, images in the repository and elsewhere.
LinkTokens ==
  {LinkToken("Link", t) : t \in AbsoluteTargets \cup RelativeTargets}
  \cup {LinkToken("AutoLink", t) : t \in {<<"http", "s://example.org/x">>, <<"mailto:", "a@example.org">>}}
  \cup {LinkToken("Image", t) : t \in {<<"a", "/", "b", ".md">>, <<"http", "://example.org/x">>}}

\* The state when link_loader.render(doc) is called (loader_fetch.py:152-157):
\* the tokens of the document in document order, none rendered yet.
InitLinks ==
  /\ \E ts \in SeqsUpTo(LinkTokens, MaxLinks) :
       doc = [NoDoc EXCEPT !.pc = "render", !.source = ts, !.tokens = ts]
  /\ link_loader = NoLinks
  /\ eval_tests = NoTestFile
  /\ test_file = NoTestModel
  /\ run = NoRun
  /\ files = <<>>
  /\ docs_dir = None
  /\ remote_docs_dir = None
  /\ visited_files = {}
  /\ results = <<>>
  /\ written = {}
  /\ stack = <<>>
  /\ status = "idle"
  /\ bundle = <<>>
  /\ renderer_lock = "job"
  /\ requests = {}
  /\ served = <<>>
  /\ trace = <<>>
  /\ warnings = {}
  /\ transients = 0
  /\ workers = <<>>
  /\ pool_docs = <<>>
  /\ load_status = "idle"
  /\ plugin = NoPlugin

\* How many tokens render has visited, and the next one.
Rendered == link_loader.rendered
NextToken == doc.tokens[Rendered + 1]

\* loader_fetch.py:338-347: _collect_link on the target of the next token:
\* the target it returns is stored in the token, and a relative target is
\* appended to _links with its local name.
CollectNext ==
  /\ doc' = [doc EXCEPT !.tokens[Rendered + 1].target = CollectLink(NextToken.target)]
  /\ link_loader' =
       [rendered |-> Rendered + 1,
        links |-> IF StartsWithHttp(NextToken.target)
                    THEN link_loader.links
                    ELSE Append(link_loader.links,
                                [remote |-> NextToken.target,
                                 out |-> GenerateLink(NextToken.target)])]
  /\ UNCHANGED <<jobvars, poolvars, run>>

\* loader_fetch.py:331-333: render_link
RenderLink ==
  /\ doc.pc = "render" /\ Rendered < Len(doc.tokens)
  /\ NextToken.kind = "Link"
  /\ CollectNext

\* loader_fetch.py:327-329: render_auto_link
RenderAutoLink ==
  /\ doc.pc = "render" /\ Rendered < Len(doc.tokens)
  /\ NextToken.kind = "AutoLink"
  /\ CollectNext

\* loader_fetch.py:323-325: render_image
RenderImage ==
  /\ doc.pc = "render" /\ Rendered < Len(doc.tokens)
  /\ NextToken.kind = "Image"
  /\ CollectNext

\* loader_fetch.py:157: link_loader.render(doc) returns.
RenderReturns ==
  /\ doc.pc = "render" /\ Rendered = Len(doc.tokens)
  /\ doc' = [doc EXCEPT !.pc = "rendered"]
  /\ UNCHANGED <<jobvars, poolvars, run, link_loader>>

NextLinks ==
  \/ RenderLink
  \/ RenderAutoLink
  \/ RenderImage
  \/ RenderReturns

SpecLinks == InitLinks /\ [][NextLinks]_vars

\* ----------------------------------------------------------------- editor

\* The block tokens of a document: mistletoe's Heading, Paragraph, BlankLine
\* and Table (the cells of its one row).
Heading(level, content) == [type |-> "Heading", level |-> level, content |-> <<content>>]
Paragraph(content) == [type |-> "Paragraph", level |-> 0, content |-> <<content>>]
BlankLine == [type |-> "BlankLine", level |-> 0, content |-> <<>>]
Table(response, answer, correct) ==
  [type |-> "Table", level |-> 0, content |-> <<response, answer, correct>>]

\* loader_fetch.py:186-188 and 229-236: the paragraphs the edits insert.
ResponseAreas == Paragraph("response_areas_content")
EditBanner == Paragraph("edit_content")

\* A search for the first heading that does not look at its level.
AnyHeading(children) ==
  LET hs == {i \in 1..Len(children) : children[i].type = "Heading"}
  IN IF hs = {} THEN 0 ELSE CHOOSE i \in hs : \A j \in hs : i <= j

\* loader_fetch.py:179-183 and 221-225: heading + 1, where heading is the
\* index of the first child that is a Heading of level 1, -1 without one.
FirstHeading(children) ==
  LET hs == {i \in 1..Len(children) : children[i].type = "Heading" /\ children[i].level = 1}
  IN IF hs = {} THEN 0 ELSE CHOOSE i \in hs : \A j \in hs : i <= j

\* list.insert(i, x)
Insert(children, i, x) ==
  SubSeq(children, 1, i) \o <<x>> \o SubSeq(children, i + 1, Len(children))

\* loader_fetch.py:364-367: input.replace("|", "\\|") on a str.
Sanitise(v) == IF v = "'a|b'" THEN "'a\\|b'" ELSE v

\* loader_fetch.py:201-215: the blocks appended for one sub-test of a test.
SubTestBlocks(test, sub) ==
  (IF Truthy(sub.desc) THEN <<Paragraph(sub.desc), BlankLine>> ELSE <<>>)
  \o << Table(Sanitise(sub.response), Sanitise(test.answer),
              IF Truthy(sub.is_correct) THEN "check" ELSE "cross"),
        BlankLine >>

\* loader_fetch.py:197-215: the blocks appended for one test.
TestBlocks(test) ==
  <<Paragraph(test.desc), BlankLine>>
  \o ConcatAll([i \in 1..Len(test.sub_tests) |-> SubTestBlocks(test, test.sub_tests[i])])

\* loader_fetch.py:194-215: the blocks appended for a TestFile.
Examples(tf) ==
  <<Heading(2, "Auto-Generated Examples")>>
  \o ConcatAll([g \in 1..Len(tf.groups) |->
       <<Heading(3, tf.groups[g].title)>>
       \o ConcatAll([t \in 1..Len(tf.groups[g].tests) |-> TestBlocks(tf.groups[g].tests[t])])])

\* The blocks of the documents of the bounds.
SourceBlocks == {Heading(1, "Title"), Heading(2, "Section"), Paragraph("text")}

\* The tests of the eval_tests files of the documents that are edited: a
\* plain one, one with "|" in response and answer, one expected to be wrong,
\* one with a number as response, one whose is_correct is a string, and ones
\* with sub_tests.
EditTests ==
  { FillerTest,
    TestDict("'a|b'", Absent, "'x'", "'a|b'", DictER("True", Absent), NoSubTests),
    TestDict("'x'", Absent, Absent, "'y'", DictER("False", Absent), NoSubTests),
    TestDict("'x'", Absent, Absent, "0", DictER("True", Absent), NoSubTests),
    TestDict("'x'", Absent, Absent, "'x'", DictER("'x'", Absent), NoSubTests),
    TestDict("'x'", Absent, Absent, Absent, NoER, SubTestList(<<>>)),
    TestDict("'x'", Absent, Absent, Absent, NoER,
      SubTestList(<< SubTestDict("'x'", "'a|b'", "'y'", DictER("True", Absent)),
                     SubTestDict(Absent, "'y'", "'y'", DictER("False", Absent)) >>)) }

\* The eval_tests files of those repositories: none, one that does not
\* parse, and files of one and of two groups.
EditTestFiles ==
  {NoTestFile, OneDoc(TRUE, <<TestDict("'x'", Absent, Absent, "'x'", NoER, NoSubTests)>>)}
  \cup {OneDoc(TRUE, <<td>>) : td \in EditTests}
  \cup {TestFileContent("yaml", TRUE, TRUE, AsYaml(<<<<FillerTest, td>>, <<td>>>>)) : td \in EditTests}

\* The state when _process_file calls _edit_docs (loader_fetch.py:160): the
\* job of a category holds the test model of its repository, and the document
\* has been parsed.
InitEdit ==
  /\ \E c \in {"user", "dev"} : \E bs \in SeqsUpTo(SourceBlocks, MaxBlocks) :
       doc = [NoDoc EXCEPT !.pc = "edit", !.category = c, !.source = bs, !.children = bs]
  /\ \E f \in EditTestFiles :
       /\ eval_tests = f
       /\ test_file = ParsedTestFile(f)
  /\ link_loader = NoLinks
  /\ run = NoRun
  /\ files = <<>>
  /\ docs_dir = None
  /\ remote_docs_dir = None
  /\ visited_files = {}
  /\ results = <<>>
  /\ written = {}
  /\ stack = <<>>
  /\ status = "idle"
  /\ bundle = <<>>
  /\ renderer_lock = "job"
  /\ requests = {}
  /\ served = <<>>
  /\ trace = <<>>
  /\ warnings = {}
  /\ transients = 0
  /\ workers = <<>>
  /\ pool_docs = <<>>
  /\ load_status = "idle"
  /\ plugin = NoPlugin

\* loader_fetch.py:177-217: _edit_user_docs returns the document with the
\* response areas after the first level-1 heading and the examples at the end.
EditUserDocs ==
  /\ doc.pc = "edit" /\ doc.category = "user"
  /\ ~ExamplesRaise(test_file)
  /\ doc' = [doc EXCEPT
       !.pc = "common",
       !.children = Insert(doc.children, FirstHeading(doc.children), ResponseAreas)
                    \o (IF test_file.set THEN Examples(test_file) ELSE <<>>)]
  /\ UNCHANGED <<jobvars, poolvars, run, link_loader>>

\* loader_fetch.py:202-203: sanitise_response raises in _edit_user_docs; the
\* exception leaves _edit_docs and _process_file.
EditUserDocsRaises ==
  /\ doc.pc = "edit" /\ doc.category = "user"
  /\ ExamplesRaise(test_file)
  /\ doc' = [doc EXCEPT !.pc = "raised"]
  /\ UNCHANGED <<jobvars, poolvars, run, link_loader>>

\* loader_fetch.py:169-172: there is no edit function for the category.
NoEditFunction ==
  /\ doc.pc = "edit" /\ doc.category # "user"
  /\ doc' = [doc EXCEPT !.pc = "common"]
  /\ UNCHANGED <<jobvars, poolvars, run, link_loader>>

\* loader_fetch.py:219-238: _edit_docs_common inserts the edit banner after
\* the first level-1 heading.
EditDocsCommon ==
  /\ doc.pc = "common"
  /\ doc' = [doc EXCEPT
       !.pc = "edited",
       !.children = Insert(doc.children, FirstHeading(doc.children), EditBanner)]
  /\ UNCHANGED <<jobvars, poolvars, run, link_loader>>

NextEdit ==
  \/ EditUserDocs
  \/ EditUserDocsRaises
  \/ NoEditFunction
  \/ EditDocsCommon

SpecEdit == InitEdit /\ [][NextEdit]_vars

\* ------------------------------------------------------------------ pool

\* The repositories load may find: whether config.json yields a function
\* name, which category documents exist, and what the link of a document
\* points at ("none": the document has no relative link).
RepoKinds ==
  { [config |-> TRUE,  user |-> TRUE,  dev |-> TRUE,  link |-> "ok"],
    [config |-> TRUE,  user |-> TRUE,  dev |-> FALSE, link |-> "missing"],
    [config |-> TRUE,  user |-> FALSE, dev |-> FALSE, link |-> "none"],
    [config |-> FALSE, user |-> TRUE,  dev |-> TRUE,  link |-> "none"] }

\* for category in ["user", "dev"]
Categories == <<"user", "dev">>

\* A thread of the pool running _fetch_function_docs for one repository: pc is
\* the statement it is at, cat the index of the category of the loop, result
\* the dict of the bundles fetched so far.
Worker(repo) ==
  [repo |-> repo, pc |-> "config", cat |-> 1,
   result |-> [c \in {"user", "dev"} |-> None], files |-> <<>>]

InitPool ==
  /\ workers \in [1..NumRepos -> {Worker(r) : r \in RepoKinds}]
  /\ pool_docs = <<>>
  /\ load_status = "running"
  /\ plugin = NoPlugin
  /\ doc = NoDoc
  /\ link_loader = NoLinks
  /\ run = NoRun
  /\ files = <<>>
  /\ eval_tests = NoTestFile
  /\ docs_dir = None
  /\ remote_docs_dir = None
  /\ visited_files = {}
  /\ test_file = NoTestModel
  /\ results = <<>>
  /\ written = {}
  /\ stack = <<>>
  /\ status = "idle"
  /\ bundle = <<>>
  /\ renderer_lock = "free"
  /\ requests = {}
  /\ served = <<>>
  /\ trace = <<>>
  /\ warnings = {}
  /\ transients = 0

\* The thread moves on to the next category, or returns its Docs.
NextCategory(w) ==
  IF w.cat < Len(Categories)
    THEN [w EXCEPT !.pc = "fetch", !.cat = w.cat + 1, !.files = <<>>]
    ELSE [w EXCEPT !.pc = "done"]

HasDocs(w) == IF Categories[w.cat] = "user" THEN w.repo.user ELSE w.repo.dev

\* loader.py:130, _get_function_config: config.json is read; without a function
\* name it raises ValueError, which nothing in _fetch_function_docs catches.
GetConfig(t) ==
  /\ workers[t].pc = "config"
  /\ workers' = [workers EXCEPT ![t].pc = IF workers[t].repo.config THEN "fetch" ELSE "raised"]
  /\ UNCHANGED <<pool_docs, load_status, plugin>>
  /\ UNCHANGED <<jobvars, run, docvars>>

\* loader.py:183, fetch_docs_file: the category's document is fetched.
FetchDocsFile(t) ==
  /\ workers[t].pc = "fetch"
  /\ HasDocs(workers[t])
  /\ workers' = [workers EXCEPT ![t].pc = "parse"]
  /\ UNCHANGED <<pool_docs, load_status, plugin>>
  /\ UNCHANGED <<jobvars, run, docvars>>

\* loader.py:183 and 141-144: the document is not there; the exception is
\* caught by the loop over the categories and logged.
FetchDocsFileFails(t) ==
  /\ workers[t].pc = "fetch"
  /\ ~HasDocs(workers[t])
  /\ workers' = [workers EXCEPT ![t] = NextCategory(workers[t])]
  /\ UNCHANGED <<pool_docs, load_status, plugin>>
  /\ UNCHANGED <<jobvars, run, docvars>>

\* loader.py:189, mistletoe.Document(...): the thread starts to parse. No lock
\* is taken: renderer_lock is a global of loader_fetch, which loader.py does
\* not import.
ParseDocument(t) ==
  /\ workers[t].pc = "parse"
  /\ workers' = [workers EXCEPT ![t].pc = "rewrite"]
  /\ UNCHANGED <<pool_docs, load_status, plugin>>
  /\ UNCHANGED <<jobvars, run, docvars>>

\* loader.py:192-204, link_loader.render and the edit: a link whose target is
\* fetched is rewritten and its file listed, one that cannot be fetched is
\* left as it is (_MarkdownLinkLoader._fetch).
RewriteLinks(t) ==
  /\ workers[t].pc = "rewrite"
  /\ workers' = [workers EXCEPT ![t].pc = "render",
                                ![t].files = IF workers[t].repo.link = "ok"
                                               THEN <<"link">> ELSE <<>>]
  /\ UNCHANGED <<pool_docs, load_status, plugin>>
  /\ UNCHANGED <<jobvars, run, docvars>>

\* loader.py:207-221: the document is rendered and written, and the bundle is
\* stored under the category.
RenderDocument(t) ==
  /\ workers[t].pc = "render"
  /\ workers' = [workers EXCEPT ![t] =
       NextCategory([workers[t] EXCEPT
         !.result[Categories[workers[t].cat]] =
            <<"bundle", Categories[workers[t].cat]>> \o workers[t].files])]
  /\ UNCHANGED <<pool_docs, load_status, plugin>>
  /\ UNCHANGED <<jobvars, run, docvars>>

\* loader.py:80-81: pool.map yields the results in the order of the
\* repositories; the next one is appended to docs.
CollectDocs ==
  /\ load_status = "running"
  /\ Len(pool_docs) < NumRepos
  /\ workers[Len(pool_docs) + 1].pc = "done"
  /\ pool_docs' = Append(pool_docs, workers[Len(pool_docs) + 1].result)
  /\ UNCHANGED <<workers, load_status, plugin>>
  /\ UNCHANGED <<jobvars, run, docvars>>

\* loader.py:80-85: the next result is an exception; it leaves pool.map and
\* load raises it.
CollectRaises ==
  /\ load_status = "running"
  /\ Len(pool_docs) < NumRepos
  /\ workers[Len(pool_docs) + 1].pc = "raised"
  /\ load_status' = "raised"
  /\ UNCHANGED <<workers, pool_docs, plugin>>
  /\ UNCHANGED <<jobvars, run, docvars>>

\* loader.py:83: every result is collected; load returns docs.
LoadReturns ==
  /\ load_status = "running"
  /\ Len(pool_docs) = NumRepos
  /\ load_status' = "returned"
  /\ UNCHANGED <<workers, pool_docs, plugin>>
  /\ UNCHANGED <<jobvars, run, docvars>>

\* plugin.py:136-150, _build_results and _build_file: the files of one
\* category of the docs of repository i; a missing bundle adds nothing.
BuildResults(category, i) ==
  LET b == pool_docs[i][category]
  IN IF b = None THEN <<>>
     ELSE <<[doc |-> i, category |-> category, file |-> "main"]>>
          \o [k \in 1..(Len(b) - 2) |-> [doc |-> i, category |-> category, file |-> b[k + 2]]]

\* plugin.py:34-40: the files of the first n docs, "dev" before "user".
PluginFiles[n \in 0..NumRepos] ==
  IF n = 0 THEN <<>>
  ELSE PluginFiles[n - 1] \o BuildResults("dev", n) \o BuildResults("user", n)

\* plugin.py:22-48: load returned, the nav is updated and the files are stored.
OnConfigRegisters ==
  /\ plugin.state = "pending"
  /\ load_status = "returned"
  /\ plugin' = [state |-> "registered", error |-> "", files |-> PluginFiles[Len(pool_docs)]]
  /\ UNCHANGED <<workers, pool_docs, load_status>>
  /\ UNCHANGED <<jobvars, run, docvars>>

\* plugin.py:43 and 49-51: the configured nav has no dev or user section;
\* _update_nav raises PluginError and the plugin is disabled.
OnConfigNavFails ==
  /\ plugin.state = "pending"
  /\ load_status = "returned"
  /\ plugin' = [state |-> "disabled", error |-> "nav", files |-> <<>>]
  /\ UNCHANGED <<workers, pool_docs, load_status>>
  /\ UNCHANGED <<jobvars, run, docvars>>

\* plugin.py:27 and 49-51: load raised; the error is logged, the plugin is
\* disabled and registers no file.
OnConfigLoadRaises ==
  /\ plugin.state = "pending"
  /\ load_status = "raised"
  /\ plugin' = [state |-> "disabled", error |-> "load", files |-> <<>>]
  /\ UNCHANGED <<workers, pool_docs, load_status>>
  /\ UNCHANGED <<jobvars, run, docvars>>

NextPool ==
  \/ \E t \in 1..NumRepos :
       \/ GetConfig(t)
       \/ FetchDocsFile(t)
       \/ FetchDocsFileFails(t)
       \/ ParseDocument(t)
       \/ RewriteLinks(t)
       \/ RenderDocument(t)
  \/ CollectDocs
  \/ CollectRaises
  \/ LoadReturns
  \/ OnConfigRegisters
  \/ OnConfigNavFails
  \/ OnConfigLoadRaises

SpecPool == InitPool /\ [][NextPool]_vars

\* The thread has begun to parse a document and has not yet rendered it.
InMarkdown(w) == w.pc \in {"rewrite", "render"}

\* ----------------------------------------------------------------- claims

\* The directories the repositories of the bounds keep their docs in.
DocsDirs == {lay.dir : lay \in Layouts}

\* The canonical path a DocsFile was made from (its edit_uri without the prefix).
SrcOf(f) == SubSeq(f.edit_uri, Len(EditUrl(<<>>)) + 1, Len(f.edit_uri))

\* The repository is the two-document cycle: the root links to d1.md only and
\* d1.md links to the root only.
TwoCycle ==
  \E dir \in DocsDirs :
    /\ UrlJoin(dir, DocLink(0)) \in DOMAIN files
    /\ UrlJoin(dir, DocLink(1)) \in DOMAIN files
    /\ files[UrlJoin(dir, DocLink(0))].links = <<DocLink(1)>>
    /\ files[UrlJoin(dir, DocLink(1))].links = <<DocLink(0)>>

\* The repository is a straight chain of n+1 documents: document k links to
\* document k+1 only, and the last one has no link.
StraightChain(n) ==
  \E dir \in DocsDirs :
    /\ \A k \in 0..n : UrlJoin(dir, DocLink(k)) \in DOMAIN files
    /\ \A k \in 0..(n-1) : files[UrlJoin(dir, DocLink(k))].links = <<DocLink(k+1)>>
    /\ files[UrlJoin(dir, DocLink(n))].links = <<>>

\* C1: within one fetch at most one output file is appended to the results (and
\* written) per canonical remote path, and the two-document cycle A -> B -> A
\* yields exactly 2 output files.
C1_OneOutputPerPath ==
  /\ \A i, j \in 1..Len(results) : i # j => SrcOf(results[i]) # SrcOf(results[j])
  /\ \A v, w \in written : v.src = w.src => v = w
  /\ (status = "returned" /\ TwoCycle /\ transients = 0) => Len(results) = 2

\* C1's case: the cycle was followed back to the root (the root's content was
\* returned a second time) and the fetch returned 2 files.
C1_Witness ==
  /\ status = "returned" /\ TwoCycle /\ transients = 0
  /\ Len(results) = 2
  /\ \E p \in DOMAIN served : served[p] = 2 /\ p = SrcOf(results[1])

\* C2: within one fetch job the content of each canonical path is requested
\* from the remote at most once; a link to a visited path is not fetched again.
C2_FetchedAtMostOnce == \A p \in DOMAIN served : served[p] <= 1

\* C3: for every link graph and every pattern of failures, fetch terminates: it
\* returns a bundle or raises.
C3_Terminates == <>Terminated

\* C3's case: a fetch that followed a cycle back to a visited document and had
\* a recursive branch fail has returned.
C3_Witness ==
  /\ status = "returned"
  /\ \E p \in DOMAIN served : served[p] = 2
  /\ \E w \in warnings : w.kind = "failed"

\* C4: nothing is requested or written at a level above 4, the depth warning
\* never fails the fetch, and a straight chain of 6 documents yields exactly 5
\* output files, none of them for the 6th.
C4_DepthGuard ==
  /\ \A r \in requests : r.level <= MaxLevel
  /\ \A i \in 1..Len(trace) : Len(trace[i]) <= MaxLevel
  /\ \A i \in 1..Len(stack) : stack[i].level > MaxLevel => stack[i].pc = "call"
  /\ (\E w \in warnings : w.kind = "depth") => status # "raised"
  /\ (status = "returned" /\ StraightChain(5) /\ transients = 0) =>
       /\ Len(results) = 5
       /\ [kind |-> "depth", link |-> DocLink(5)] \in warnings
       /\ \A w \in written : w.src \notin {UrlJoin(dir, DocLink(5)) : dir \in DocsDirs}
       /\ \A q \in DOMAIN served : q \in {UrlJoin(dir, DocLink(5)) : dir \in DocsDirs} => served[q] = 0

\* C4's case: the chain of 6 was fetched down to level 4 and the link to the
\* 6th document was met.
C4_Witness ==
  /\ status = "returned" /\ StraightChain(5) /\ transients = 0
  /\ Len(results) = 5
  /\ [kind |-> "depth", link |-> DocLink(5)] \in warnings

\* The files of the bundle fetch returned.
BundleFiles ==
  {bundle[1].main} \cup {bundle[1].supplementary[i] : i \in 1..Len(bundle[1].supplementary)}

\* C5: when fetch returns, every local target the rewriter wrote into an output
\* document names a file of the returned bundle.
C5_ClosedSet ==
  status = "returned" =>
    \A w \in written : \A k \in 1..Len(w.targets) :
      ~StartsWithHttp(w.targets[k]) =>
        \E f \in BundleFiles : f.file_path = OsPathJoin(BaseDir, w.targets[k])

\* Whether every request at the root level went unanswered.
RootFetchFailed ==
  /\ \E r \in requests : r.level = 0
  /\ \A r \in requests : r.level = 0 => ~r.ok

\* C6: a failure of the root fetch leaves fetch as an exception and no bundle is
\* returned; a failure in a recursive branch is logged, fetch still returns a
\* bundle, the output of the linking document stays in the results, and every
\* link of every output document is still called.
C6_FailureIsolation ==
  /\ status = "raised" => bundle = <<>> /\ results = <<>>
  /\ (RootFetchFailed /\ Len(stack) = 0) => status = "raised"
  /\ Len(results) >= 1 => status # "raised"
  /\ \A w \in warnings : w.kind = "failed" =>
       \E i \in 1..Len(results) :
         \E k \in 1..Len(files[SrcOf(results[i])].links) :
           files[SrcOf(results[i])].links[k] = w.link
  /\ status = "returned" =>
       /\ Len(bundle) = 1
       /\ \A i \in 1..Len(results) :
            \A k \in 1..Len(files[SrcOf(results[i])].links) :
              LET link == files[SrcOf(results[i])].links[k]
              IN (EndsWithMd(SrcOf(results[i])) /\ ~StartsWithHttp(link)) =>
                   \/ \E r \in requests : r.link = link /\ r.level = Len(trace[i]) + 1
                   \/ [kind |-> "depth", link |-> link] \in warnings

\* C6's case: the first link of a document failed, the second was fetched and
\* has its output, and fetch returned.
C6_Witness ==
  /\ status = "returned"
  /\ \E i \in 1..Len(results) :
       LET links == files[SrcOf(results[i])].links
       IN /\ Len(links) = 2
          /\ [kind |-> "failed", link |-> links[1]] \in warnings
          /\ \A r \in requests : r.link = links[1] => ~r.ok
          /\ \E j \in 1..Len(results) :
               results[j].file_path = OsPathJoin(BaseDir, GenerateLink(links[2]))

\* C7: a link whose target could not be fetched in a recursive branch still
\* points at its original target in the written output of the linking document.
C7_FailedLinkKeepsTarget ==
  status = "returned" =>
    \A w \in written : \A k \in 1..Len(w.targets) :
      LET link == files[w.src].links[k]
      IN ( /\ [kind |-> "failed", link |-> link] \in warnings
           /\ \A r \in requests : r.link = link => r.path \notin DOMAIN files )
         => w.targets[k] = link

\* Whether call a comes before call b in depth-first pre-order: a is an
\* ancestor of b, or a is in the subtree of an earlier link.
Before(a, b) ==
  \/ Len(a) < Len(b) /\ SubSeq(b, 1, Len(a)) = a
  \/ \E k \in 1..Len(a) :
       /\ k <= Len(b)
       /\ SubSeq(a, 1, k-1) = SubSeq(b, 1, k-1)
       /\ a[k] < b[k]

\* C8: the bundle's main file is the root document's output, element 0 of the
\* results, the supplementary files are the other outputs, and the results are
\* in depth-first pre-order: each output is that of a link of an earlier output
\* (its parent), and the subtrees of a document's links follow link order.
C8_PreOrder ==
  status = "returned" =>
    /\ bundle[1].main = results[1]
    /\ bundle[1].supplementary = Tail(results)
    /\ results[1].file_path = OsPathJoin(BaseDir, ConfigName \o <<".md">>)
    /\ trace[1] = <<>>
    /\ \A i, j \in 1..Len(results) : i < j => Before(trace[i], trace[j])
    /\ \A j \in 2..Len(results) :
         \E i \in 1..(j-1) :
           /\ trace[i] = SubSeq(trace[j], 1, Len(trace[j]) - 1)
           /\ LET pairs == CollectedLinks(files[SrcOf(results[i])].links)
                  k == trace[j][Len(trace[j])]
              IN k <= Len(pairs) /\ results[j].file_path = OsPathJoin(BaseDir, pairs[k].out)

\* C8's case: a bundle whose root has two links with outputs, the first of
\* which has an output below it.
C8_Witness ==
  /\ status = "returned"
  /\ Len(results) >= 4
  /\ \E i, j \in 2..Len(results) : trace[i] = <<1>> /\ trace[j] = <<2>> /\ j > i + 1

\* C9: a configured docs directory is never replaced; without one the
\* directory is fixed once, to the directory of the first fetched file, found
\* under "docs" or "app/docs", and never changes again; every request made
\* once it is fixed is for the join of that directory and the link, and only
\* requests of the root document probe the default directories.
C9_DocsDirFixedOnce ==
  /\ [][ /\ ~Falsy(remote_docs_dir) => remote_docs_dir' = remote_docs_dir
         /\ (Falsy(remote_docs_dir) /\ ~Falsy(remote_docs_dir')) =>
              /\ visited_files = {}
              /\ \E p \in visited_files' : remote_docs_dir' = Dirname(p)
              /\ remote_docs_dir' \in {<<"docs">>, <<"app", "/", "docs">>} ]_vars
  /\ [](~Falsy(docs_dir) => remote_docs_dir = docs_dir)
  /\ [](visited_files # {} => ~Falsy(remote_docs_dir))
  /\ [](\A r \in requests :
          IF Falsy(r.dir)
            THEN /\ r.level = 0
                 /\ r.path \in {UrlJoin(<<"docs">>, r.link), UrlJoin(<<"app", "/", "docs">>, r.link)}
            ELSE /\ r.path = UrlJoin(r.dir, r.link)
                 /\ r.dir = remote_docs_dir)

\* C9's case: no directory was configured, the root was found by the second
\* probe, and a file of a subdirectory was fetched later.
C9_Witness ==
  /\ Falsy(docs_dir)
  /\ remote_docs_dir = <<"app", "/", "docs">>
  /\ <<"app", "/", "docs", "/", "sub", "/", "c", ".md">> \in visited_files
  /\ status = "returned"

\* C10: the Markdown parse / rewrite / serialize step is a process-wide
\* critical section: no two threads of the pool are inside it together.
C10_CriticalSection ==
  \A t, u \in 1..NumRepos :
    t # u => ~(InMarkdown(workers[t]) /\ InMarkdown(workers[u]))

\* C11: an error while fetching one project's documentation is isolated to
\* that project: once on_config is over (with a valid nav), load has returned
\* and the plugin has registered the main file of every category document
\* that exists in a repository whose config.json is valid.
C11_ProjectIsolation ==
  (plugin.state # "pending" /\ plugin.error # "nav") =>
    /\ load_status = "returned"
    /\ plugin.state = "registered"
    /\ \A t \in 1..NumRepos : \A c \in {"user", "dev"} :
         (workers[t].repo.config /\ workers[t].repo[c]) =>
           \E k \in 1..Len(plugin.files) :
             plugin.files[k] = [doc |-> t, category |-> c, file |-> "main"]

\* Whether the repository holds an eval_tests.* file that cannot be parsed: its
\* bytes do not decode, or TestFile raises on it.
CannotParse ==
  eval_tests # NoTestFile /\ (~eval_tests.utf8 \/ TestFileRaises(eval_tests))

\* C19: when the eval_tests.* file cannot be parsed the fetch job continues:
\* the job's test model stays unset, no output document gets the examples
\* section, and fetch raises only if a request to the remote failed (it still
\* returns the bundle of a root document it can fetch).
C19_UnparsableTestFile ==
  CannotParse =>
    /\ test_file = NoTestModel
    /\ \A w \in written : ~w.examples
    /\ status = "raised" => (transients > 0 \/ RootFetchFailed)

\* C20: no error from a test specification that parses aborts the fetch:
\* with a test model set, fetch raises only if the root document could not be
\* fetched.
C20_TestValuesNeverAbort ==
  (test_file.set /\ status = "raised") => RootFetchFailed

\* C12: every Test of a successfully parsed file, JSON or flat, has at least
\* one SubTest, whatever the length of its sub_tests sequence.
C12_AtLeastOneSubTest ==
  test_file.set => \A gt \in ParsedTests : Len(TestAt(gt).sub_tests) >= 1

\* The test entries of group g (a question, a YAML document) of a file.
GroupEntries(f, g) ==
  IF f.ext = "json"
    THEN {f.content[g].parts[p][a].tests[t] :
            <<p, a, t>> \in {x \in (1..2) \X (1..2) \X (1..MaxTests + 1) :
                               /\ x[1] <= Len(f.content[g].parts)
                               /\ x[2] <= Len(f.content[g].parts[x[1]])
                               /\ x[3] <= Len(f.content[g].parts[x[1]][x[2]].tests)}}
    ELSE {f.content[g].tests[t] : t \in 1..Len(f.content[g].tests)}

\* An expected_result that is missing or empty, and a test entry one of whose
\* sub-tests (the entry itself when it has no sub_tests) has such a one.
LacksER(er) == er.kind = "absent" \/ (er.kind = "dict" /\ er.d = EmptyDict)
TestLacksER(td) ==
  IF td.sub_tests.kind = "absent"
    THEN LacksER(td.expected_result)
    ELSE \E i \in 1..Len(td.sub_tests.entries) : LacksER(td.sub_tests.entries[i].expected_result)
GroupLacksER(f, g) == \E td \in GroupEntries(f, g) : TestLacksER(td)

HasER(er) == er.kind = "dict" /\ er.d # EmptyDict
TestHasER(td) ==
  IF td.sub_tests.kind = "list"
    THEN \A i \in 1..Len(td.sub_tests.entries) : HasER(td.sub_tests.entries[i].expected_result)
    ELSE HasER(td.expected_result)
AllHaveER(f) == \A g \in 1..Len(f.content) : \A td \in GroupEntries(f, g) : TestHasER(td)

\* C14: every SubTest of a successful parse has a boolean expectedIsCorrect,
\* for every file whose tests all carry a non-empty expected_result mapping.
C14_IsCorrectBoolean ==
  (test_file.set /\ AllHaveER(eval_tests)) =>
    \A gt \in ParsedTests : \A i \in 1..Len(TestAt(gt).sub_tests) :
      TestAt(gt).sub_tests[i].is_correct \in {"True", "False"}

\* The response area each test of a question comes from, in the order the
\* tests are read.
JsonAreas(q) ==
  ConcatAll([p \in 1..Len(q.parts) |->
    ConcatAll([a \in 1..Len(q.parts[p]) |->
      [t \in 1..Len(q.parts[p][a].tests) |-> q.parts[p][a]]])])

\* C15: in the JSON format every entry of a response area's tests becomes
\* exactly one Test with exactly one SubTest, whose answer and params are
\* those of the enclosing response area, whatever keys the entry carries.
C15_JsonOneTestOneSubTest ==
  (test_file.set /\ eval_tests.ext = "json") =>
    \A g \in 1..Len(eval_tests.content) :
      LET areas == JsonAreas(eval_tests.content[g])
          tests == test_file.groups[g].tests
      IN /\ Len(tests) = Len(areas)
         /\ \A k \in 1..Len(tests) :
              /\ Len(tests[k].sub_tests) = 1
              /\ tests[k].answer = areas[k].answer
              /\ tests[k].params = areas[k].params

\* The response of sub-test k of a test entry: that of entry k of its
\* sub_tests, the entry's own when it has none.
EntryResponse(td, k) ==
  IF td.sub_tests.kind = "list"
    THEN Get(td.sub_tests.entries[k].response, "''")
    ELSE Get(td.response, "''")

\* C16: in the flat format a test without params gets an empty params
\* mapping; a test with a sub_tests sequence yields one SubTest per entry, in
\* order, all evaluated against the answer and params of the parent; a test
\* without sub_tests yields a single SubTest with the test's own response and
\* expected result.
C16_FlatFormat ==
  (test_file.set /\ eval_tests.ext = "yaml") =>
    \A d \in 1..Len(eval_tests.content) : \A t \in 1..Len(eval_tests.content[d].tests) :
      LET td == eval_tests.content[d].tests[t]
          test == test_file.groups[d].tests[t]
      IN /\ td.params = Absent => test.params = "{}"
         /\ td.sub_tests.kind = "list" =>
              /\ Len(test.sub_tests) = Len(td.sub_tests.entries)
              /\ \A i \in 1..Len(test.sub_tests) :
                   /\ test.sub_tests[i].response = Get(td.sub_tests.entries[i].response, "''")
                   /\ test.sub_tests[i].expected_result = td.sub_tests.entries[i].expected_result.d
         /\ td.sub_tests.kind = "absent" =>
              /\ Len(test.sub_tests) = 1
              /\ test.sub_tests[1].response = Get(td.response, "''")
              /\ test.sub_tests[1].expected_result = td.expected_result.d
         /\ (run.pc \in {"evaluating", "done"} /\ run.g = d /\ run.t = t) =>
              /\ \A k \in 1..Len(run.calls) :
                   run.calls[k] = [response |-> EntryResponse(td, k),
                                   answer |-> Get(td.answer, "''"),
                                   params |-> Get(td.params, "{}")]
              /\ run.pc = "done" => Len(run.calls) = Len(test.sub_tests)

\* C16 witness: a test without params and with two different sub-tests, each
\* with an answer of its own, has been run to the end.
C16_Witness ==
  /\ run.pc = "done"
  /\ Len(run.calls) = 2
  /\ eval_tests.content[run.g].tests[run.t].params = Absent
  /\ eval_tests.content[run.g].tests[run.t].sub_tests.kind = "list"
  /\ run.calls[1].response # run.calls[2].response
  /\ eval_tests.content[run.g].tests[run.t].sub_tests.entries[1].answer # run.calls[1].answer

\* The comparison policy in its own words: the actual is_correct equals the
\* expected one, and every key of the expected result is present in the
\* actual result with exactly the same value.
ExactlyMeets(sub, actual) ==
  /\ actual["is_correct"] = sub.is_correct
  /\ \A k \in 1..Len(ResultKeys) :
       sub.expected_result[ResultKeys[k]] # Absent =>
         /\ actual[ResultKeys[k]] # Absent
         /\ actual[ResultKeys[k]] = sub.expected_result[ResultKeys[k]]

\* C17: the runner reports a pass exactly when, for every SubTest, the actual
\* is_correct equals expectedIsCorrect and every key of expectedResult is in
\* the actual result with an exactly equal value, whatever the values (None
\* included); keys only the actual result has do not matter.
C17_PassIffAllMatch ==
  run.pc = "done" =>
    (run.passed <=>
       \A i \in 1..Len(RunTest.sub_tests) : ExactlyMeets(RunTest.sub_tests[i], run.results[i]))

\* C18: a run takes the SubTests in order and stops at the first failing one:
\* the diagnostic is that of the failing SubTest of the lowest index, and
\* the evaluation function is not called for any SubTest after it.
C18_ShortCircuit ==
  (run.pc = "done" /\ ~run.passed) =>
    /\ Mismatch(RunTest.sub_tests[run.failed_at], run.results[run.failed_at])
    /\ \A i \in 1..(run.failed_at - 1) : ~Mismatch(RunTest.sub_tests[i], run.results[i])
    /\ \A k \in 1..Len(run.calls) : run.calls[k].response = RunTest.sub_tests[k].response
    /\ Len(run.calls) = run.failed_at

\* The file a link is fetched as under the docs directory the job has fixed:
\* the first path of the plan that the repository holds (None: no such file).
Resolve(link) ==
  LET plan == FetchPlan(link, remote_docs_dir)
      hits == {j \in 1..Len(plan) : plan[j] \in DOMAIN files}
  IN IF hits = {} THEN None ELSE plan[CHOOSE j \in hits : \A k \in hits : j <= k]

\* The files the relative links of a file lead to (a file that is no Markdown
\* file has none).
LinkedFrom(p) ==
  IF ~EndsWithMd(p) THEN {}
  ELSE {Resolve(files[p].links[k]) :
          k \in {j \in 1..Len(files[p].links) : ~StartsWithHttp(files[p].links[j])}}

\* The files whose shortest link distance from the root document is at most d.
Within(d) ==
  LET W[k \in 0..d] ==
        IF k = 0 THEN {Resolve(DocLink(0))}
        ELSE W[k - 1] \cup UNION {LinkedFrom(p) : p \in W[k - 1] \cap DOMAIN files}
  IN W[d]

\* Every document of the link graph is fetchable: every link leads to a file
\* of the repository that decodes and renders, no request fails, and the
\* examples can be generated.
AllFetchable ==
  /\ transients = 0
  /\ ~ExamplesRaise(test_file)
  /\ \A p \in Within(MaxChain + 2) :
       /\ p \in DOMAIN files
       /\ EndsWithMd(p) => files[p].utf8 /\ files[p].renders

\* C26: when every document of the link graph is fetchable, every document
\* whose shortest link distance from the root is at most 4 has an output file
\* when fetch returns, whatever the order of the links and whatever longer
\* path reaches the document first.
C26_CompleteWithinDepth ==
  (status = "returned" /\ AllFetchable) =>
    \A p \in Within(MaxLevel) : \E w \in written : w.src = p

\* C21: the link rewriter leaves every link, auto-link and image target with
\* a scheme (http, https, mailto, ftp) unchanged and does not collect it, and
\* rewrites every target without a scheme to its local name and collects it.
C21_AbsoluteLinksUntouched ==
  \A i \in 1..Rendered :
    IF doc.source[i].target \in AbsoluteTargets
      THEN /\ doc.tokens[i].target = doc.source[i].target
           /\ \A k \in 1..Len(link_loader.links) :
                link_loader.links[k].remote # doc.source[i].target
      ELSE /\ doc.tokens[i].target = GenerateLink(doc.source[i].target)
           /\ \E k \in 1..Len(link_loader.links) :
                link_loader.links[k] = [remote |-> doc.source[i].target,
                                        out |-> doc.tokens[i].target]

\* C22: the local names of one project do not collide: two different relative
\* targets, such as a/b and a__b, get different local names.
C22_LocalNamesDistinct ==
  \A j, k \in 1..Len(link_loader.links) :
    link_loader.links[j].remote # link_loader.links[k].remote =>
      link_loader.links[j].out # link_loader.links[k].out

\* The relative targets of the first n tokens of the document, each once, in
\* the order of their first occurrence.
FirstOccurrences(n) ==
  LET F[i \in 0..n] ==
        IF i = 0 THEN <<>>
        ELSE IF \/ StartsWithHttp(doc.source[i].target)
                \/ \E j \in 1..(i - 1) : doc.source[j].target = doc.source[i].target
          THEN F[i - 1]
          ELSE Append(F[i - 1], doc.source[i].target)
  IN F[n]

\* C23: the list of pairs the rewriter returns holds every rewritten relative
\* target exactly once, also when the target occurs several times, in the
\* order in which the tokens are visited.
C23_EachTargetOnceInOrder ==
  doc.pc = "rendered" =>
    /\ Len(link_loader.links) = Len(FirstOccurrences(Len(doc.source)))
    /\ \A k \in 1..Len(link_loader.links) :
         link_loader.links[k].remote = FirstOccurrences(Len(doc.source))[k]

\* A sequence without its element i.
Without(s, i) == SubSeq(s, 1, i - 1) \o SubSeq(s, i + 1, Len(s))

\* How many blocks of the source document come before and with its first
\* top-level heading of level 1 (0 when it has none).
SourceHeading ==
  LET hs == {i \in 1..Len(doc.source) :
               doc.source[i].type = "Heading" /\ doc.source[i].level = 1}
  IN IF hs = {} THEN 0 ELSE CHOOSE i \in hs : \A j \in hs : i <= j

\* C24: the category-specific edit runs first and the common edit second; in
\* every edited document the edit/view-source banner is the block right after
\* the first top-level level-1 heading (block 0 without one); in a user
\* document the response-area banner is the block right after that banner; in
\* a dev document the banner is the only inserted block and the original
\* blocks keep their order.
C24_BannerAfterFirstHeading ==
  /\ doc.pc = "common" =>
       \A i \in 1..Len(doc.children) : doc.children[i] # EditBanner
  /\ doc.pc = "edited" =>
       /\ doc.children[SourceHeading + 1] = EditBanner
       /\ SubSeq(doc.children, 1, SourceHeading) = SubSeq(doc.source, 1, SourceHeading)
       /\ doc.category = "user" => doc.children[SourceHeading + 2] = ResponseAreas
       /\ doc.category = "dev" => Without(doc.children, SourceHeading + 1) = doc.source

\* C24 witness: a user document whose first level-1 heading comes after a
\* paragraph and a level-2 heading has been edited.
C24_Witness ==
  /\ doc.pc = "edited"
  /\ doc.category = "user"
  /\ SourceHeading = 3
  /\ doc.source[1].type = "Paragraph"
  /\ doc.source[2] = Heading(2, "Section")
  /\ doc.children[4] = EditBanner
  /\ doc.children[5] = ResponseAreas

\* The blocks of the document after all the blocks of its source and the
\* banners inserted so far.
Appended ==
  SubSeq(doc.children,
         Len(doc.source) + (IF doc.pc = "edited" THEN 3 ELSE 2),
         Len(doc.children))

\* The blocks of a type among a sequence of blocks, in order.
OfType(blocks, type) ==
  LET Is(b) == b.type = type
  IN SelectSeq(blocks, Is)

\* The headings and the tables of the examples of a TestFile: the level-2
\* heading and a level-3 heading per group; a table per SubTest, with a check
\* mark exactly when expectedIsCorrect is true.
ClaimedHeadings(tf) ==
  <<Heading(2, "Auto-Generated Examples")>>
  \o [g \in 1..Len(tf.groups) |-> Heading(3, tf.groups[g].title)]
ClaimedTables(tf) ==
  ConcatAll([g \in 1..Len(tf.groups) |->
    ConcatAll([t \in 1..Len(tf.groups[g].tests) |->
      [i \in 1..Len(tf.groups[g].tests[t].sub_tests) |->
         Table(Sanitise(tf.groups[g].tests[t].sub_tests[i].response),
               Sanitise(tf.groups[g].tests[t].answer),
               IF tf.groups[g].tests[t].sub_tests[i].is_correct = "True"
                 THEN "check" ELSE "cross")]])])
TestCount(tf) ==
  Len(ConcatAll([g \in 1..Len(tf.groups) |-> tf.groups[g].tests]))

\* C25: with a test model the user edit appends, after all original content,
\* the level-2 heading "Auto-Generated Examples", a level-3 heading per group
\* in order, a description paragraph per Test and exactly one table per
\* SubTest, with "|" escaped in response and answer and a check mark when
\* expectedIsCorrect is true, a cross otherwise; without a test model it
\* appends nothing.
C25_ExamplesAppended ==
  (doc.category = "user" /\ doc.pc # "edit") =>
    /\ doc.pc # "raised"
    /\ IF test_file.set
         THEN /\ Appended # <<>>
              /\ Appended[1] = Heading(2, "Auto-Generated Examples")
              /\ OfType(Appended, "Heading") = ClaimedHeadings(test_file)
              /\ OfType(Appended, "Table") = ClaimedTables(test_file)
              /\ Len(OfType(Appended, "Paragraph")) >= TestCount(test_file)
         ELSE Appended = <<>>

====
